---------------------------- MODULE Spec2Model ----------------------------
(***************************************************************************)
(* Model of the three pipeline components of test_rig_forecast_vertex:     *)
(*   read_raw_data  (src/src/components/read_raw_data.py)                  *)
(*   split_data     (src/src/components/split_data.py)                     *)
(*   train          (src/src/components/train.py)                          *)
(* File names are sequences of one-character strings.  A table is a        *)
(* sequence of rows.  Each component has its own specification; the        *)
(* variables of the components a specification does not run stay idle.     *)
(***************************************************************************)
EXTENDS Integers, Sequences, FiniteSets, TLC

VARIABLES
    \* ---- unit extraction alone (lines 55-59 of read_raw_data.py)
    file,            \* the file name handed to the extraction
    unit,            \* <<the extracted unit>>, <<>> before and on failure
    lb_pc,           \* "start" | "done" | "ValueError" | "idle"
    \* ---- read_raw_data
    listing,         \* what os.listdir returns: distinct names, any order
    pos,             \* number of listing entries the for loop has consumed
    final_df,        \* the combined table, a sequence of rows
    units,           \* the list `units`
    visited,         \* per consumed entry: what the loop body did with it
    interim_csv,     \* the table written on lines 66-69, NotWritten before
    gcs_csv,         \* the table written on lines 71-74, NotWritten before
    rd_pc,           \* "scan" | "written" | "ValueError" | "idle"
    \* ---- split_data
    processed_df,    \* the table read: row labels 0..n-1 (RangeIndex)
    train_data_size, \* the fraction, as <<numerator, denominator>>
    train_csv,       \* the written train table, NotWritten before
    test_csv,        \* the written test table, NotWritten before
    sp_pc,           \* "start" | "done" | "idle"
    \* ---- train: the arguments
    train_feature,   \* train_df[feature].values, the feature column
    lookback,
    patience,
    epochs,
    learning_rate,
    keras3,          \* which Keras is installed (the component pins none)
    \* ---- train: preparation, lines 52-63
    scaled_train,    \* scaler.fit_transform(train_data)
    i,               \* the loop variable of line 59
    x_train,
    y_train,
    \* ---- train: forecaster.fit, lines 74-93
    epoch,           \* epochs run so far
    weights,         \* the forecaster's parameters: 0 initially, then the
                     \* number of the epoch that produced them
    lr,              \* the optimizer's learning rate
    stop_training,   \* model.stop_training
    es_wait,         \* EarlyStopping.wait
    es_best,         \* EarlyStopping.best
    es_best_weights, \* EarlyStopping.best_weights: <<>> is None
    rl_wait,         \* ReduceLROnPlateau.wait
    rl_best,         \* ReduceLROnPlateau.best
    val_loss,        \* history.history['val_loss']
    lr_log,          \* history.history['lr']
    \* ---- train: the files
    scaler_file,     \* line 57
    metrics_file,    \* lines 94-98
    keras_model_file,\* line 101
    tr_pc            \* "start" | "loop" | "fit" | "saved" | "ValueError" | "idle"

labelVars == <<file, unit, lb_pc>>
readVars  == <<listing, pos, final_df, units, visited, interim_csv, gcs_csv,
              rd_pc>>
splitVars == <<processed_df, train_data_size, train_csv, test_csv, sp_pc>>
trainArgs == <<train_feature, lookback, patience, epochs, learning_rate, keras3>>
prepVars  == <<scaled_train, i, x_train, y_train>>
fitVars   == <<epoch, weights, lr, stop_training, es_wait, es_best,
              es_best_weights, rl_wait, rl_best, val_loss, lr_log>>
trainVars == <<trainArgs, prepVars, fitVars, scaler_file, metrics_file,
              keras_model_file, tr_pc>>

\* a file: <<>> while it is not written, <<content>> once it is
NotWritten == <<>>
Written(content) == <<content>>

(***************************************************************************)
(* Bounds of the model.                                                    *)
(***************************************************************************)
MaxNameLen == 5      \* longest file name handed to the extraction alone
MaxFiles   == 3      \* longest directory listing
MaxFileRows == 1     \* most rows a raw file holds
MaxRows    == 5      \* most rows of the processed table
MaxN       == 5      \* longest feature column handed to train
MaxLookback == 3     \* largest lookback
MaxPatience == 3     \* largest patience
MaxEpochs  == 4      \* largest epochs
MaxLoss    == 3      \* largest validation loss, in units of RLRMinDelta

(***************************************************************************)
(* Python string operations, on sequences of characters.                   *)
(***************************************************************************)
Min(a, b) == IF a <= b THEN a ELSE b
Max(a, b) == IF a >= b THEN a ELSE b

\* s.endswith(suffix)
EndsWith(s, suffix) ==
    /\ Len(suffix) <= Len(s)
    /\ SubSeq(s, Len(s) - Len(suffix) + 1, Len(s)) = suffix

\* sub in s
Contains(s, sub) ==
    \E k \in 0..(Len(s) - Len(sub)) : SubSeq(s, k + 1, k + Len(sub)) = sub

\* s.split(sep)[0] for a one-character sep: s up to its first sep, all of s
\* when it holds none
RECURSIVE SplitFirst(_, _)
SplitFirst(s, sep) ==
    IF s = <<>> \/ Head(s) = sep THEN <<>>
    ELSE <<Head(s)>> \o SplitFirst(Tail(s), sep)

\* s[-3:]
Last3(s) == SubSeq(s, Max(Len(s) - 3, 0) + 1, Len(s))

\* s.lstrip(chars)
RECURSIVE LStrip(_, _)
LStrip(s, chars) ==
    IF s # <<>> /\ Head(s) \in chars THEN LStrip(Tail(s), chars) ELSE s

Digits == {"0", "1", "2", "3", "4", "5", "6", "7", "8", "9"}

DigitVal(c) ==
    CASE c = "0" -> 0 [] c = "1" -> 1 [] c = "2" -> 2 [] c = "3" -> 3
      [] c = "4" -> 4 [] c = "5" -> 5 [] c = "6" -> 6 [] c = "7" -> 7
      [] c = "8" -> 8 [] c = "9" -> 9

\* int(s) succeeds: decimal digits, single underscores allowed between two
\* digits (PEP 515).  No character of the modelled names is white space or
\* a sign that reaches int(): the segment before the first '-' holds no '-'.
IntParses(s) ==
    /\ s # <<>>
    /\ \A k \in 1..Len(s) : s[k] \in Digits \cup {"_"}
    /\ s[1] # "_" /\ s[Len(s)] # "_"
    /\ \A k \in 1..(Len(s) - 1) : ~(s[k] = "_" /\ s[k + 1] = "_")

\* the value of int(s) when it succeeds
RECURSIVE IntValue(_, _)
IntValue(s, acc) ==
    IF s = <<>> THEN acc
    ELSE IF Head(s) = "_" THEN IntValue(Tail(s), acc)
    ELSE IntValue(Tail(s), 10 * acc + DigitVal(Head(s)))

(***************************************************************************)
(* Unit extraction, read_raw_data.py lines 55-59.                          *)
(***************************************************************************)
\* name_list = file.split('-');  name_list[0]
name_list0(f) == SplitFirst(f, "-")

\* name_list[0][-3:].lstrip('0D'), the argument of int() on line 57
UnitText1(f) == LStrip(Last3(name_list0(f)), {"0", "D"})

\* name_list[0].split('_')[0][-3:].lstrip('0D'), the argument on line 59
UnitText2(f) == LStrip(Last3(SplitFirst(name_list0(f), "_")), {"0", "D"})

\* ExtractUnit with the two strategies tried in the other order
ExtractUnit_Strategy2First(f) ==
    IF IntParses(UnitText2(f)) THEN <<IntValue(UnitText2(f), 0)>>
    ELSE IF IntParses(UnitText1(f)) THEN <<IntValue(UnitText1(f), 0)>>
    ELSE <<>>

\* ExtractUnit with a default unit in place of the ValueError
ExtractUnit_Default(f) ==
    IF IntParses(UnitText1(f)) THEN <<IntValue(UnitText1(f), 0)>>
    ELSE IF IntParses(UnitText2(f)) THEN <<IntValue(UnitText2(f), 0)>>
    ELSE <<0>>

\* the try / except ValueError of lines 56-59: <<unit>>, or <<>> when the
\* int() of line 59 raises too (that ValueError is caught by nothing)
ExtractUnit(f) ==
    IF IntParses(UnitText1(f)) THEN <<IntValue(UnitText1(f), 0)>>
    ELSE IF IntParses(UnitText2(f)) THEN <<IntValue(UnitText2(f), 0)>>
    ELSE <<>>

(***************************************************************************)
(* Unit extraction on its own: every name over NameChars up to MaxNameLen. *)
(***************************************************************************)
NameChars == {"U", "D", "0", "1", "3", "-", "_"}

AllNames == UNION {[1..n -> NameChars] : n \in 0..MaxNameLen}

LabelIdle == file = <<>> /\ unit = <<>> /\ lb_pc = "idle"

LabelInit == file \in AllNames /\ unit = <<>> /\ lb_pc = "start"

\* lines 55-60 for one file: the unit is assigned
LabelOk ==
    /\ lb_pc = "start"
    /\ ExtractUnit(file) # <<>>
    /\ unit' = ExtractUnit(file)
    /\ lb_pc' = "done"
    /\ UNCHANGED file

\* lines 55-59 for one file: the second int() raises
LabelRaise ==
    /\ lb_pc = "start"
    /\ ExtractUnit(file) = <<>>
    /\ lb_pc' = "ValueError"
    /\ UNCHANGED <<file, unit>>

(***************************************************************************)
(* read_raw_data, lines 29-76.                                             *)
(***************************************************************************)
RAW  == <<"R", "A", "W">>
CSV  == <<".", "c", "s", "v">>
XLSX == <<".", "x", "l", "s", "x">>
XLS  == <<".", "x", "l", "s">>

\* the conditions of lines 35 and 41-42
IsRawName(f) ==
    \/ EndsWith(f, CSV) /\ Contains(f, RAW)
    \/ (EndsWith(f, XLSX) \/ EndsWith(f, XLS)) /\ Contains(f, RAW)

\* the directory entries the listing is drawn from
Names == {
    <<"U", "0", "1", "3", "-", "R", "A", "W", ".", "c", "s", "v">>,
    <<"D", "1", "3", "-", "R", "A", "W", ".", "x", "l", "s">>,
    <<"1", "3", "_", "R", "A", "W", ".", "x", "l", "s", "x">>,
    <<"D", "0", "1", "-", "R", "A", "W", ".", "c", "s", "v">>,
    <<"U", "0", "1", "3", "-", "r", "u", "n", ".", "c", "s", "v">>,
    <<"U", "0", "1", "-", "R", "A", "W", ".", "t", "x", "t">>,
    <<"R", "A", "W", ".", "c", "s", "v">>,
    <<"U", "-", "R", "A", "W", ".", "x", "l", "s">> }

\* os.listdir: distinct names, in an order the code does not choose
Listings ==
    {l \in UNION {[1..n -> Names] : n \in 0..MaxFiles} :
        \A a, b \in 1..Len(l) : a # b => l[a] # l[b]}

\* units.count(unit)
RECURSIVE Count(_, _)
Count(s, x) ==
    IF s = <<>> THEN 0
    ELSE (IF Head(s) = x THEN 1 ELSE 0) + Count(Tail(s), x)

\* TestNumber as one counter for all units
TestNumber_Global(us, u) == Len(us)

\* line 62, evaluated after the append of line 60
TestNumber(us, u) == Count(us, u)

\* current_df of an ingested file: its rows, with the columns of lines 61-62
current_df(f, nrows, u, t) ==
    [r \in 1..nrows |-> [file |-> f, row |-> r, UNIT |-> u, TEST |-> t]]

\* Concat with the new rows put first
Concat_Prepend(df, cur) == cur \o df

\* line 63: pd.concat((final_df, current_df), ignore_index=True)
Concat(df, cur) == df \o cur

ReadIdle ==
    /\ listing = <<>> /\ pos = 0 /\ final_df = <<>> /\ units = <<>>
    /\ visited = <<>> /\ interim_csv = NotWritten /\ gcs_csv = NotWritten
    /\ rd_pc = "idle"

ReadInit ==
    /\ listing \in Listings
    /\ pos = 0 /\ final_df = <<>> /\ units = <<>> /\ visited = <<>>
    /\ interim_csv = NotWritten /\ gcs_csv = NotWritten
    /\ rd_pc = "scan"

\* the record of one pass: whether the read was tried and returned ("none",
\* "error", "ok"), how the pass ended, and the rows read
Visit(f, read, how, nrows) ==
    Append(visited, [file |-> f, read |-> read, how |-> how, nrows |-> nrows])

\* one pass of the for loop, lines 32-65.  readable: whether pd.read_csv /
\* pd.read_excel returns (anything it raises is caught on line 51); nrows:
\* the rows it returns.
ScanEntry ==
    /\ rd_pc = "scan"
    /\ pos < Len(listing)
    /\ LET f == listing[pos + 1] IN
       \E readable \in BOOLEAN, nrows \in 0..MaxFileRows :
          IF ~IsRawName(f) THEN
             \* lines 48-50
             /\ visited' = Visit(f, "none", "invalid", 0)
             /\ pos' = pos + 1
             /\ UNCHANGED <<final_df, units, rd_pc>>
          ELSE IF ~readable THEN
             \* lines 51-53
             /\ visited' = Visit(f, "error", "unreadable", 0)
             /\ pos' = pos + 1
             /\ UNCHANGED <<final_df, units, rd_pc>>
          ELSE IF ExtractUnit(f) = <<>> THEN
             \* line 59 raises; nothing catches it and the function ends
             /\ visited' = Visit(f, "ok", "raised", nrows)
             /\ rd_pc' = "ValueError"
             /\ UNCHANGED <<pos, final_df, units>>
          ELSE
             \* lines 60-63
             LET u  == ExtractUnit(f)[1]
                 us == Append(units, u)
             IN /\ units' = us
                /\ final_df' = Concat(final_df,
                                      current_df(f, nrows, u, TestNumber(us, u)))
                /\ visited' = Visit(f, "ok", "ingested", nrows)
                /\ pos' = pos + 1
                /\ UNCHANGED rd_pc
    /\ UNCHANGED <<listing, interim_csv, gcs_csv>>

\* lines 66-76, after the loop: final_df is written twice
WriteInterim ==
    /\ rd_pc = "scan"
    /\ pos = Len(listing)
    /\ interim_csv' = Written(final_df)
    /\ gcs_csv' = Written(final_df)
    /\ rd_pc' = "written"
    /\ UNCHANGED <<listing, pos, final_df, units, visited>>

(***************************************************************************)
(* split_data, lines 25-39.                                                *)
(***************************************************************************)
\* the values of train_data_size tried, as <<numerator, denominator>>
Fractions ==
    {<<0 - 1, 2>>, <<0, 1>>, <<1, 4>>, <<1, 3>>, <<1, 2>>, <<2, 3>>,
     <<3, 4>>, <<9, 10>>, <<1, 1>>, <<3, 2>>}

\* int(x) of a quotient a / q, q > 0: truncation toward zero
IntTrunc(a, q) == IF a >= 0 THEN a \div q ELSE 0 - ((0 - a) \div q)

\* int(len(processed_df) * train_data_size)
CutIndex(n, f) == IntTrunc(n * f[1], f[2])

\* LocTo with the end label left out, as positional slicing would
LocTo_Exclusive(df, k) == SubSeq(df, 1, Min(Max(k, 0), Len(df)))

\* df.loc[:k] on labels 0..n-1: the rows whose label is <= k
LocTo(df, k) == SubSeq(df, 1, Min(k + 1, Len(df)))

\* df.loc[k:] on labels 0..n-1: the rows whose label is >= k
LocFrom(df, k) == SubSeq(df, Max(k, 0) + 1, Len(df))

\* a processed table of n rows; row r (counted from 1) has label r - 1
Table(n) == [r \in 1..n |-> r - 1]

SplitIdle ==
    /\ processed_df = <<>> /\ train_data_size = <<1, 2>>
    /\ train_csv = NotWritten /\ test_csv = NotWritten /\ sp_pc = "idle"

SplitInit ==
    /\ processed_df \in {Table(n) : n \in 0..MaxRows}
    /\ train_data_size \in Fractions
    /\ train_csv = NotWritten /\ test_csv = NotWritten
    /\ sp_pc = "start"

\* the whole of split_data: lines 25-39
split_data ==
    /\ sp_pc = "start"
    /\ LET k == CutIndex(Len(processed_df), train_data_size) IN
          /\ train_csv' = Written(LocTo(processed_df, k))
          /\ test_csv' = Written(LocFrom(processed_df, k))
    /\ sp_pc' = "done"
    /\ UNCHANGED <<processed_df, train_data_size>>

(***************************************************************************)
(* train, lines 52-101.                                                    *)
(***************************************************************************)
\* the feature columns tried: a ramp 1..n and a constant column
Ramp(n)  == [k \in 1..n |-> k]
Const(n) == [k \in 1..n |-> 2]
FeatureColumns == {Ramp(n) : n \in 0..MaxN} \cup {Const(n) : n \in 1..MaxN}

RECURSIVE SeqMin(_)
SeqMin(s) ==
    IF Len(s) = 1 THEN s[1] ELSE Min(Head(s), SeqMin(Tail(s)))

RECURSIVE SeqMax(_)
SeqMax(s) ==
    IF Len(s) = 1 THEN s[1] ELSE Max(Head(s), SeqMax(Tail(s)))

\* MinMaxScaler(feature_range=(0, 1)).fit, lines 54-55: the data minimum and
\* the data range, a zero range being replaced by 1
ScalerFit(x) ==
    [data_min |-> SeqMin(x),
     range    |-> IF SeqMax(x) = SeqMin(x) THEN 1 ELSE SeqMax(x) - SeqMin(x)]

\* MinMaxScaler.transform: (x - data_min) / range, kept as the fraction
\* <<numerator, denominator>>
ScalerTransform(sc, x) ==
    [k \in 1..Len(x) |-> <<x[k] - sc.data_min, sc.range>>]

\* scaled_train[a:b] for 0 <= a <= b
Slice(s, a, b) == SubSeq(s, a + 1, Min(b, Len(s)))

\* Window shifted by one, so that it takes in its own label
Window_Leaky(s, j, L) == Slice(s, j - L + 1, j + 1)

\* line 60: the window appended for loop index j
Window(s, j, L) == Slice(s, j - L, j)

\* line 61: the label appended for loop index j, scaled_train[j]
Label(s, j) == s[j + 1]

\* line 62: np.stack raises ValueError on an empty list
StackFails(xs) == xs = <<>>

\* validation_split=0.2 (line 80): fit keeps floor(0.8 m) of the m samples
\* for training and raises ValueError when that leaves either side empty
SplitAt(m) == (m * 4) \div 5
ValidationSplitFails(m) == SplitAt(m) = 0 \/ SplitAt(m) = m

\* RestoreBestWeights left at the library's default
RestoreBestWeights_Off == FALSE

\* EarlyStopping(patience=patience, monitor='val_loss', mode='min',
\* restore_best_weights=True), lines 83-87; the rules are the library's
RestoreBestWeights == TRUE
ESPatience(p) == p
\* mode 'min' with the default min_delta = 0: np.less(current - 0, best)
ESImproved(current, best) == current < best
\* "if self.wait >= self.patience and epoch > 0", epoch counted from 0
ESStops(wait, p, ep) == wait >= ESPatience(p) /\ ep > 0

\* RLRPatience with the halving turned into a doubling
RLRPatience_Doubled(p) == p * 2

\* ReduceLROnPlateau(monitor='val_loss', factor=0.75,
\* patience=patience // 2, mode='min'), lines 88-92; the rules are the
\* library's
RLRPatience(p) == p \div 2
RLRFactor == <<3, 4>>
\* the default min_delta = 1e-4: the unit validation losses are counted in
RLRMinDelta == 1
\* mode 'min': np.less(current, best - min_delta)
RLRImproved(current, best) == current < best - RLRMinDelta
\* new_lr = max(old_lr * factor, min_lr) with the default min_lr = 0
ReduceLR(old_lr) == Max((old_lr * RLRFactor[1]) \div RLRFactor[2], 0)

\* np.Inf, the initial best of both callbacks: above every loss
Inf == MaxLoss + RLRMinDelta + 1

\* learning rates are counted in units that keep old_lr * 0.75 exact for as
\* many reductions as there are epochs
LearningRates == {4 ^ (MaxEpochs + 1)}

TrainIdle ==
    /\ train_feature = <<>> /\ lookback = 1 /\ patience = 1 /\ epochs = 1
    /\ learning_rate = 1 /\ keras3 = FALSE
    /\ scaled_train = <<>> /\ i = 0 /\ x_train = <<>> /\ y_train = <<>>
    /\ epoch = 0 /\ weights = 0 /\ lr = 1 /\ stop_training = FALSE
    /\ es_wait = 0 /\ es_best = Inf /\ es_best_weights = <<>>
    /\ rl_wait = 0 /\ rl_best = Inf /\ val_loss = <<>> /\ lr_log = <<>>
    /\ scaler_file = NotWritten /\ metrics_file = NotWritten
    /\ keras_model_file = NotWritten
    /\ tr_pc = "idle"

TrainInit ==
    /\ train_feature \in FeatureColumns
    /\ lookback \in 1..MaxLookback
    /\ patience \in 1..MaxPatience
    /\ epochs \in 1..MaxEpochs
    /\ learning_rate \in LearningRates
    /\ keras3 \in BOOLEAN
    /\ scaled_train = <<>> /\ i = 0 /\ x_train = <<>> /\ y_train = <<>>
    /\ epoch = 0 /\ weights = 0 /\ lr = learning_rate /\ stop_training = FALSE
    /\ es_wait = 0 /\ es_best = Inf /\ es_best_weights = <<>>
    /\ rl_wait = 0 /\ rl_best = Inf /\ val_loss = <<>> /\ lr_log = <<>>
    /\ scaler_file = NotWritten /\ metrics_file = NotWritten
    /\ keras_model_file = NotWritten
    /\ tr_pc = "start"

\* Prepare with the scaler not dumped before the windows are built
Prepare_NoDump ==
    /\ tr_pc = "start"
    /\ IF Len(train_feature) = 0 THEN
          /\ tr_pc' = "ValueError"
          /\ UNCHANGED <<scaled_train, i>>
       ELSE
          /\ scaled_train' =
                ScalerTransform(ScalerFit(train_feature), train_feature)
          /\ i' = lookback
          /\ tr_pc' = "loop"
    /\ UNCHANGED <<trainArgs, x_train, y_train, fitVars, scaler_file,
                   metrics_file, keras_model_file>>

\* lines 52-57: the column is scaled and the scaler dumped.  fit_transform
\* raises ValueError on a column of no rows (sklearn wants one sample).
Prepare ==
    /\ tr_pc = "start"
    /\ IF Len(train_feature) = 0 THEN
          /\ tr_pc' = "ValueError"
          /\ UNCHANGED <<scaled_train, i, scaler_file>>
       ELSE
          LET scaler == ScalerFit(train_feature) IN
          /\ scaled_train' = ScalerTransform(scaler, train_feature)
          /\ scaler_file' = Written(scaler)
          /\ i' = lookback
          /\ tr_pc' = "loop"
    /\ UNCHANGED <<trainArgs, x_train, y_train, fitVars, metrics_file,
                   keras_model_file>>

\* one pass of the loop of lines 59-61
WindowStep ==
    /\ tr_pc = "loop"
    /\ i < Len(scaled_train)
    /\ x_train' = Append(x_train, Window(scaled_train, i, lookback))
    /\ y_train' = Append(y_train, Label(scaled_train, i))
    /\ i' = i + 1
    /\ UNCHANGED <<trainArgs, scaled_train, fitVars, scaler_file, metrics_file,
                   keras_model_file, tr_pc>>

\* lines 62-81, once the loop has ended: the windows are stacked, the
\* forecaster built and compiled, and fit takes its validation split
StackAndCompile ==
    /\ tr_pc = "loop"
    /\ i >= Len(scaled_train)
    /\ tr_pc' = IF StackFails(x_train) \/ ValidationSplitFails(Len(x_train))
                THEN "ValueError" ELSE "fit"
    /\ UNCHANGED <<trainArgs, prepVars, fitVars, scaler_file, metrics_file,
                   keras_model_file>>

\* one epoch of forecaster.fit: the epoch trains, then the callbacks run
\* on_epoch_end in the order of the list of line 82, EarlyStopping first.
\* v is the validation loss the epoch ends with.
FitEpoch ==
    /\ tr_pc = "fit"
    /\ ~stop_training
    /\ epoch < epochs
    /\ \E v \in 0..MaxLoss :
          LET w        == epoch + 1
              improved == ESImproved(v, es_best)
              wait1    == IF improved THEN 0 ELSE es_wait + 1
              best_w   == IF improved /\ RestoreBestWeights
                          THEN <<w>> ELSE es_best_weights
              stops    == ESStops(wait1, patience, epoch)
              rl_imp   == RLRImproved(v, rl_best)
              rl_wait1 == IF rl_imp THEN 0 ELSE rl_wait + 1
              reduce   == /\ ~rl_imp
                          /\ rl_wait1 >= RLRPatience(patience)
                          /\ lr > 0
          IN  /\ epoch' = w
              /\ val_loss' = Append(val_loss, v)
              /\ lr_log' = Append(lr_log, lr)
              \* EarlyStopping.on_epoch_end
              /\ es_best' = IF improved THEN v ELSE es_best
              /\ es_best_weights' = best_w
              /\ es_wait' = wait1
              /\ stop_training' = stops
              \* Keras 2 restores the best weights as it stops
              /\ weights' = IF stops /\ ~keras3 /\ RestoreBestWeights
                               /\ best_w # <<>>
                            THEN best_w[1] ELSE w
              \* ReduceLROnPlateau.on_epoch_end
              /\ rl_best' = IF rl_imp THEN v ELSE rl_best
              /\ rl_wait' = IF reduce THEN 0 ELSE rl_wait1
              /\ lr' = IF reduce THEN ReduceLR(lr) ELSE lr
    /\ UNCHANGED <<trainArgs, prepVars, scaler_file, metrics_file,
                   keras_model_file, tr_pc>>

\* fit returns (on_train_end) and lines 94-101 write the metrics and the
\* model.  Keras 3 restores the best weights on_train_end, stopped or not.
SaveModel ==
    /\ tr_pc = "fit"
    /\ stop_training \/ epoch >= epochs
    /\ LET final == IF keras3 /\ RestoreBestWeights /\ es_best_weights # <<>>
                    THEN es_best_weights[1] ELSE weights
       IN  /\ weights' = final
           /\ keras_model_file' = Written(final)
    /\ metrics_file' = Written([val_loss |-> val_loss, lr |-> lr_log])
    /\ tr_pc' = "saved"
    /\ UNCHANGED <<trainArgs, prepVars, epoch, lr, stop_training, es_wait,
                   es_best, es_best_weights, rl_wait, rl_best, val_loss,
                   lr_log, scaler_file>>

(***************************************************************************)
(* Specifications.                                                         *)
(***************************************************************************)
vars == <<labelVars, readVars, splitVars, trainVars>>

InitLabel == LabelInit /\ ReadIdle /\ SplitIdle /\ TrainIdle
NextLabel ==
    \/ LabelOk /\ UNCHANGED <<readVars, splitVars, trainVars>>
    \/ LabelRaise /\ UNCHANGED <<readVars, splitVars, trainVars>>
SpecLabel == InitLabel /\ [][NextLabel]_vars

InitRead == ReadInit /\ LabelIdle /\ SplitIdle /\ TrainIdle
NextRead ==
    \/ ScanEntry /\ UNCHANGED <<labelVars, splitVars, trainVars>>
    \/ WriteInterim /\ UNCHANGED <<labelVars, splitVars, trainVars>>
SpecRead == InitRead /\ [][NextRead]_vars

InitSplit == SplitInit /\ LabelIdle /\ ReadIdle /\ TrainIdle
NextSplit == split_data /\ UNCHANGED <<labelVars, readVars, trainVars>>
SpecSplit == InitSplit /\ [][NextSplit]_vars

InitTrain == TrainInit /\ LabelIdle /\ ReadIdle /\ SplitIdle
NextTrain ==
    \/ Prepare /\ UNCHANGED <<labelVars, readVars, splitVars>>
    \/ WindowStep /\ UNCHANGED <<labelVars, readVars, splitVars>>
    \/ StackAndCompile /\ UNCHANGED <<labelVars, readVars, splitVars>>
    \/ FitEpoch /\ UNCHANGED <<labelVars, readVars, splitVars>>
    \/ SaveModel /\ UNCHANGED <<labelVars, readVars, splitVars>>
SpecTrain == InitTrain /\ [][NextTrain]_vars

(***************************************************************************)
(* Properties of the unit extraction (SpecLabel).                          *)
(***************************************************************************)
\* the part of s before its first c (all of s when it holds no c), said
\* without recursion
C4_Before(s, c) ==
    LET n == CHOOSE k \in 0..Len(s) :
                 /\ \A j \in 1..k : s[j] # c
                 /\ k = Len(s) \/ s[k + 1] = c
    IN  SubSeq(s, 1, n)

\* the last 3 characters of s, leading '0' and 'D' characters removed
C4_Stripped(s) ==
    LET t == [j \in 1..(IF Len(s) < 3 THEN Len(s) ELSE 3) |->
                 s[Len(s) - (IF Len(s) < 3 THEN Len(s) ELSE 3) + j]]
        n == CHOOSE k \in 0..Len(t) :
                 /\ \A j \in 1..k : t[j] \in {"0", "D"}
                 /\ k = Len(t) \/ t[k + 1] \notin {"0", "D"}
    IN  SubSeq(t, n + 1, Len(t))

C4_U013 == <<"U", "0", "1", "3", "-">>

\* C4: the unit is what strategy 1 (segment before the first '-', last 3
\* characters, leading '0'/'D' stripped, int) gives when it parses, else what
\* strategy 2 (the same on the part of that segment before the first '_')
\* gives when it parses, else the extraction raises; "U013-" gives 13.
C4_TwoStrategyRule ==
    lb_pc \in {"done", "ValueError"} =>
        LET seg == C4_Before(file, "-")
            t1  == C4_Stripped(seg)
            t2  == C4_Stripped(C4_Before(seg, "_"))
        IN  /\ IntParses(t1) =>
                   lb_pc = "done" /\ unit = <<IntValue(t1, 0)>>
            /\ ~IntParses(t1) /\ IntParses(t2) =>
                   lb_pc = "done" /\ unit = <<IntValue(t2, 0)>>
            /\ ~IntParses(t1) /\ ~IntParses(t2) =>
                   lb_pc = "ValueError" /\ unit = <<>>
            /\ file = C4_U013 => unit = <<13>>

\* a name both strategies parse, to different units: strategy 1 decides
C4_Witness ==
    /\ lb_pc = "done"
    /\ file = <<"1", "_", "0", "1", "3">>
    /\ unit = <<13>>

(***************************************************************************)
(* Properties of read_raw_data (SpecRead).                                 *)
(***************************************************************************)
\* the passes that ingested their file, among the first n
C1_IngestedUpTo(n) == {k \in 1..n : visited[k].how = "ingested"}

\* the pass that consumed file f (names of a listing are distinct)
C1_PassOf(f) == CHOOSE k \in 1..Len(visited) : visited[k].file = f

\* C1: every row's TEST is the number of files ingested so far, its own
\* included, whose unit is the row's UNIT; `units` grows by one per ingested
\* file and by nothing per skipped one.
C1_TestCountsUnit ==
    /\ Len(units) = Cardinality(C1_IngestedUpTo(Len(visited)))
    /\ \A r \in 1..Len(final_df) :
          final_df[r].TEST =
             Cardinality({k \in C1_IngestedUpTo(C1_PassOf(final_df[r].file)) :
                             ExtractUnit(visited[k].file) = <<final_df[r].UNIT>>})

\* three ingested files of unit 13 carry TEST 1, 2, 3 in scan order
C1_Witness ==
    /\ Len(final_df) = 3
    /\ \A r \in 1..3 : final_df[r].UNIT = 13 /\ final_df[r].TEST = r

\* the name test of the claim: a tabular extension and the marker
C5_Accepted(f) ==
    /\ EndsWith(f, CSV) \/ EndsWith(f, XLSX) \/ EndsWith(f, XLS)
    /\ Contains(f, RAW)

\* neither strategy finds an integer in the name
C5_NoUnit(f) == ~IntParses(UnitText1(f)) /\ ~IntParses(UnitText2(f))

\* the rows of the ingested files, in the order of the passes
RECURSIVE C5_RowsOf(_)
C5_RowsOf(vis) ==
    IF vis = <<>> THEN <<>>
    ELSE C5_RowsOf(SubSeq(vis, 1, Len(vis) - 1)) \o
         (IF vis[Len(vis)].how = "ingested"
          THEN [r \in 1..vis[Len(vis)].nrows |-> <<vis[Len(vis)].file, r>>]
          ELSE <<>>)

C5_TableIsConcatenation ==
    [r \in 1..Len(final_df) |-> <<final_df[r].file, final_df[r].row>>]
        = C5_RowsOf(visited)

\* C5 as claimed: an entry is ingested exactly when its name is accepted and
\* it is read; every other entry is skipped and nothing raises.
C5_Original ==
    /\ rd_pc # "ValueError"
    /\ \A k \in 1..Len(visited) :
          visited[k].how = "ingested" <=>
             C5_Accepted(visited[k].file) /\ visited[k].read = "ok"
    /\ C5_TableIsConcatenation

\* C5 amended: an entry is ingested exactly when its name is accepted, it is
\* read and its name yields a unit; an entry whose name is not accepted or
\* that cannot be read is skipped and the scan goes on; an accepted, read
\* entry without a unit raises and ends the scan.  The table is the
\* concatenation of the ingested files' rows in visiting order.
C5_IngestRule ==
    /\ \A k \in 1..Len(visited) :
          LET v == visited[k] IN
          /\ v.file = listing[k]
          /\ v.how = "ingested" <=>
                C5_Accepted(v.file) /\ v.read = "ok" /\ ~C5_NoUnit(v.file)
          /\ v.how = "raised" <=>
                C5_Accepted(v.file) /\ v.read = "ok" /\ C5_NoUnit(v.file)
          /\ v.read = "none" <=> ~C5_Accepted(v.file)
          /\ v.how \in {"invalid", "unreadable"} => v.nrows = 0
          /\ v.how = "raised" => k = Len(visited) /\ rd_pc = "ValueError"
    /\ rd_pc = "ValueError" =>
          visited # <<>> /\ visited[Len(visited)].how = "raised"
    /\ rd_pc # "ValueError" => pos = Len(visited)
    /\ C5_TableIsConcatenation
    /\ rd_pc = "written" =>
          interim_csv = <<final_df>> /\ gcs_csv = <<final_df>>

\* two files ingested around a skipped one, and the table written
C5_Witness ==
    /\ rd_pc = "written"
    /\ Len(visited) = 3
    /\ visited[1].how = "ingested" /\ visited[3].how = "ingested"
    /\ visited[2].how \in {"invalid", "unreadable"}
    /\ Len(final_df) = 2

\* C7: once an accepted, read file's name yields no integer under either
\* strategy the run has ended in the ValueError and has written no table;
\* every row of the table carries the unit one of the strategies parsed from
\* its file's name.
C7_UnlabelledFileRaises ==
    /\ (\E k \in 1..Len(visited) :
           /\ visited[k].read = "ok"
           /\ C5_NoUnit(visited[k].file))
          => /\ rd_pc = "ValueError"
             /\ interim_csv = NotWritten /\ gcs_csv = NotWritten
    /\ \A r \in 1..Len(final_df) :
          LET f == final_df[r].file IN
          \/ IntParses(UnitText1(f)) /\ final_df[r].UNIT = IntValue(UnitText1(f), 0)
          \/ IntParses(UnitText2(f)) /\ final_df[r].UNIT = IntValue(UnitText2(f), 0)

\* a file is ingested, then an unlabelled one ends the run
C7_Witness ==
    /\ rd_pc = "ValueError"
    /\ Len(final_df) >= 1
    /\ C5_NoUnit(visited[Len(visited)].file)
    /\ interim_csv = NotWritten

(***************************************************************************)
(* Properties of split_data (SpecSplit).                                   *)
(***************************************************************************)
\* the fraction <<numerator, denominator>> lies in the open interval (0, 1)
C2_InOpenUnit(f) == 0 < f[1] /\ f[1] < f[2]

\* floor(n * f)
C2_Floor(n, f) ==
    CHOOSE k \in 0..n : k * f[2] <= n * f[1] /\ n * f[1] < (k + 1) * f[2]

\* the rows labelled a..b, in order
C2_Rows(a, b) == [r \in 1..(b - a + 1) |-> a + r - 1]

\* C2 as claimed, for every n: train is rows 0..k, test is rows k..n-1, the
\* last train row is the first test row.
C2_Original ==
    sp_pc = "done" /\ C2_InOpenUnit(train_data_size) =>
        LET n == Len(processed_df)
            k == C2_Floor(n, train_data_size)
        IN  /\ Len(train_csv[1]) = k + 1
            /\ Len(test_csv[1]) = n - k
            /\ train_csv[1] = C2_Rows(0, k)
            /\ test_csv[1] = C2_Rows(k, n - 1)

\* C2 amended: the same for every n >= 1; of a table of no rows both parts
\* are empty.
C2_SplitAtCut ==
    sp_pc = "done" /\ C2_InOpenUnit(train_data_size) =>
        LET n == Len(processed_df)
            k == C2_Floor(n, train_data_size)
        IN  IF n = 0 THEN train_csv = <<<<>>>> /\ test_csv = <<<<>>>>
            ELSE /\ Len(train_csv[1]) = k + 1
                 /\ Len(test_csv[1]) = n - k
                 /\ train_csv[1] = C2_Rows(0, k)
                 /\ test_csv[1] = C2_Rows(k, n - 1)
                 /\ train_csv[1][k + 1] = test_csv[1][1]

\* 5 rows at 1/2: rows 0..2 and rows 2..4
C2_Witness ==
    /\ sp_pc = "done"
    /\ Len(processed_df) = 5 /\ train_data_size = <<1, 2>>
    /\ train_csv = <<<<0, 1, 2>>>> /\ test_csv = <<<<2, 3, 4>>>>

\* C8: a train_data_size outside (0, 1) is reported: nothing is written.
C8_FractionChecked ==
    ~C2_InOpenUnit(train_data_size) =>
        sp_pc # "done" /\ train_csv = NotWritten /\ test_csv = NotWritten

(***************************************************************************)
(* Properties of train (SpecTrain).                                        *)
(***************************************************************************)
\* C3: the pairs built so far are, in order, the windows of scaled values
\* [k, k + lookback) with the value at k + lookback as label (k counted from
\* 0); when the loop has ended on a column longer than lookback there are
\* exactly n - lookback of them.
C3_WindowsAndLabels ==
    LET n == Len(train_feature) IN
    /\ Len(x_train) = Len(y_train)
    /\ \A k \in 1..Len(x_train) :
          /\ x_train[k] = [j \in 1..lookback |-> scaled_train[k - 1 + j]]
          /\ y_train[k] = scaled_train[k + lookback]
    /\ (/\ lookback < n
        /\ \/ tr_pc \in {"fit", "saved", "ValueError"}
           \/ tr_pc = "loop" /\ i >= n)
          => Len(x_train) = n - lookback

\* a ramp of 5 values and lookback 2: 3 pairs, the last ([3, 4] -> 5), scaled
C3_Witness ==
    /\ tr_pc = "fit"
    /\ train_feature = <<1, 2, 3, 4, 5>> /\ lookback = 2
    /\ Len(x_train) = 3
    /\ x_train[3] = <<<<2, 4>>, <<3, 4>>>>
    /\ y_train[3] = <<4, 4>>

\* C9 as claimed: a column no longer than lookback never reaches the fit,
\* and the failed run has written no model, no metrics and no scaler.
C9_Original ==
    Len(train_feature) <= lookback =>
        /\ tr_pc \notin {"fit", "saved"}
        /\ tr_pc = "ValueError" =>
              /\ keras_model_file = NotWritten
              /\ metrics_file = NotWritten
              /\ scaler_file = NotWritten

\* C9 amended: a column no longer than lookback never reaches the fit: the
\* loop makes no pass and the run ends in the ValueError, with no epoch run,
\* no model file and no metrics file; the scaler file is already written
\* when the run fails, unless the column has no rows at all.
C9_TooShortFails ==
    Len(train_feature) <= lookback =>
        /\ tr_pc \in {"start", "loop", "ValueError"}
        /\ tr_pc = "loop" => i >= Len(scaled_train)
        /\ x_train = <<>> /\ epoch = 0
        /\ keras_model_file = NotWritten
        /\ metrics_file = NotWritten
        /\ tr_pc = "ValueError" =>
              (scaler_file # NotWritten <=> Len(train_feature) >= 1)

\* the run has failed on a short column and the scaler file is there
C9_Witness ==
    /\ tr_pc = "ValueError"
    /\ Len(train_feature) >= 1 /\ Len(train_feature) <= lookback
    /\ scaler_file # NotWritten
    /\ keras_model_file = NotWritten

\* epoch j (counted from 1) did not improve the validation loss
C6_NoImprove(j) ==
    j >= 2 /\ val_loss[j] >= SeqMin(SubSeq(val_loss, 1, j - 1))

\* C6: no more than `epochs` epochs run; once `patience` consecutive epochs
\* starting at epoch e have not improved the validation loss the training
\* has halted, at epoch e + patience at the latest; the model saved after an
\* early stop holds the weights of an epoch of least validation loss, which
\* is not the last epoch.
C6_EarlyStopping ==
    /\ epoch <= epochs /\ Len(val_loss) = epoch
    /\ \A e \in 1..epoch :
          (/\ e + patience - 1 <= epoch
           /\ \A j \in e..(e + patience - 1) : C6_NoImprove(j))
             => stop_training /\ epoch <= e + patience
    /\ tr_pc = "saved" /\ stop_training =>
          \E b \in 1..epoch :
             /\ keras_model_file = <<b>>
             /\ val_loss[b] = SeqMin(val_loss)
             /\ b # epoch

\* patience 2: epoch 2 is the best, epochs 3 and 4 do not improve, the run
\* halts after epoch 4 and saves the weights of epoch 2
C6_Witness ==
    /\ tr_pc = "saved" /\ stop_training
    /\ patience = 2 /\ epoch = 4 /\ epochs > 4 - 1
    /\ val_loss = <<3, 1, 2, 2>>
    /\ keras_model_file = <<2>>

\* the learning rate after the callbacks of epoch j (lr_log[j] is the rate
\* the epoch ran with)
C10_LrAfter(j) == IF j < Len(lr_log) THEN lr_log[j + 1] ELSE lr

\* the plateau length of the watcher: patience // 2, one epoch at least
C10_Plateau == IF patience \div 2 >= 1 THEN patience \div 2 ELSE 1

=============================================================================
